---------------------------- MODULE Spec2Model ----------------------------
(***************************************************************************)
(* A model of InstructDistill/instruction_distill.py: the permutation      *)
(* reconciler (receive_response), the passage sampler                      *)
(* (RerankData.__getitem__ / collate_fn), the distributed reducer          *)
(* (split_data, gather_tensors) and the training loop (train).             *)
(*                                                                         *)
(* Each component has its own state variable and its own specification;   *)
(* a component that a specification does not exercise stays Idle.          *)
(***************************************************************************)
EXTENDS Integers, Sequences, FiniteSets, TLC

VARIABLES rr, gi, sd, gt, st, tr

vars == <<rr, gi, sd, gt, st, tr>>

\* The value of a component's variable in a specification that does not use it.
Idle == [pc |-> "idle"]

----------------------------------------------------------------------------
(* Bounds of the model *)

\* longest enumerated response string (in characters)
MaxLen == 3
\* most retrieved passages of an example
MaxPassages == 3
\* largest group size RerankData is constructed with
MaxPsgNum == 3
\* most positive passages of an example
MaxPositives == 2
\* most rows of a tensor handed to split_data
MaxRows == 6
\* most workers split_data is asked to share a tensor among
MaxSplit == 4
\* most workers of a gather_tensors call
MaxWorld == 3
\* most rows of a worker's shard in a gather_tensors call
MaxShard == 2
\* most workers of a training step
MaxProcesses == 16
\* most examples of the batch of a training step
MaxExamples == 3
\* most workers of a run of the training loop
MaxWorkers == 3
\* most examples of the dataset of a run of the training loop
MaxData == 33
\* most epochs of a run of the training loop
MaxEpochs == 2

----------------------------------------------------------------------------
(* Generic helpers *)

Min(a, b) == IF a < b THEN a ELSE b

Range(s) == {s[i] : i \in 1..Len(s)}

\* all sequences over S of length 0..n
SeqsUpTo(S, n) == UNION {[1..k -> S] : k \in 0..n}

\* Python's s[a:b] for 0 <= a, b (indices are clamped to len(s))
Slice(s, a, b) == SubSeq(s, Min(a, Len(s)) + 1, Min(b, Len(s)))

\* how often x occurs in s
Count(s, x) == Cardinality({i \in 1..Len(s) : s[i] = x})

\* Python's "x in list"
In(x, s) == \E i \in 1..Len(s) : s[i] = x

\* Python's range(n) as a list
RangeList(n) == [i \in 1..n |-> i - 1]

----------------------------------------------------------------------------
(* receive_response: characters and str -> int                             *)
(*                                                                         *)
(* A response is a sequence of characters, each a one-character string;   *)
(* "sup2" stands for U+00B2 (superscript two), a character for which       *)
(* str.isdigit() is true although it is no decimal digit.                  *)

DecimalDigits == {"0", "1", "2", "3", "4", "5", "6", "7", "8", "9"}

OtherDigits == {"sup2"}

\* c.isdigit(): Unicode decimal digits and the other characters with a digit value
isdigit(c) == c \in DecimalDigits \cup OtherDigits

DigitValue(c) == CASE c = "0" -> 0 [] c = "1" -> 1 [] c = "2" -> 2 [] c = "3" -> 3 [] c = "4" -> 4 [] c = "5" -> 5 [] c = "6" -> 6 [] c = "7" -> 7 [] c = "8" -> 8 [] c = "9" -> 9

\* int(x) accepts a token of decimal digits only; anything else is a ValueError
IntRaises(x) == x = <<>> \/ \E i \in 1..Len(x) : x[i] \notin DecimalDigits

RECURSIVE DecimalValue(_)
DecimalValue(x) == IF x = <<>> THEN 0 ELSE 10 * DecimalValue(SubSeq(x, 1, Len(x) - 1)) + DigitValue(x[Len(x)])

\* str.strip() of a string that holds digits and spaces only
RECURSIVE LStrip(_)
LStrip(s) == IF s # <<>> /\ Head(s) = " " THEN LStrip(Tail(s)) ELSE s

RECURSIVE RStrip(_)
RStrip(s) == IF s # <<>> /\ s[Len(s)] = " " THEN RStrip(SubSeq(s, 1, Len(s) - 1)) ELSE s

strip(s) == RStrip(LStrip(s))

\* the leading run of non-space characters of s
RECURSIVE TakeToken(_)
TakeToken(s) == IF s = <<>> \/ Head(s) = " " THEN <<>> ELSE <<Head(s)>> \o TakeToken(Tail(s))

\* str.split(): the maximal runs of non-space characters, in order
RECURSIVE split(_)
split(s) == IF LStrip(s) = <<>> THEN <<>> ELSE <<TakeToken(LStrip(s))>> \o split(SubSeq(LStrip(s), Len(TakeToken(LStrip(s))) + 1, Len(LStrip(s))))

\* clean_response: every non-digit becomes a space, then strip
clean_response(response) == strip([i \in 1..Len(response) |-> IF isdigit(response[i]) THEN response[i] ELSE " "])

\* remove_duplicate with the membership test lost: nothing is removed
remove_duplicate_keep_all(response) == response

\* remove_duplicate: keep the first occurrence of each element
RECURSIVE remove_duplicate(_)
remove_duplicate(response) == IF response = <<>> THEN <<>> ELSE LET init == remove_duplicate(SubSeq(response, 1, Len(response) - 1)) IN IF In(response[Len(response)], init) THEN init ELSE Append(init, response[Len(response)])

\* the parse with the conversion to 0-based indices lost: [int(x) for x in ...]
ParseIndices_one_based(tokens) == [i \in 1..Len(tokens) |-> DecimalValue(tokens[i])]

\* [int(x) - 1 for x in response.split()]
ParseIndices(tokens) == [i \in 1..Len(tokens) |-> DecimalValue(tokens[i]) - 1]

\* the int() of some token raises
ParseRaises(tokens) == \E i \in 1..Len(tokens) : IntRaises(tokens[i])

\* response = [ss for ss in response if ss in original_rank]
KeepInRange(response, original_rank) == LET Keep(ss) == In(ss, original_rank) IN SelectSeq(response, Keep)

\* lines 84-90: the index sequence used for the reordering
ReconciledIndices(response, n) == LET parsed == remove_duplicate(ParseIndices(split(clean_response(response)))) original_rank == RangeList(n) valid == KeepInRange(parsed, original_rank) Missing(tt) == ~In(tt, valid) IN valid \o SelectSeq(original_rank, Missing)

\* new_passages = [passages[ii] for ii in response]
Reorder(passages, response) == [k \in 1..Len(response) |-> passages[response[k] + 1]]

\* the body of the loop of receive_response for one (item, response) pair
ReconcileItem(item, response) == [query |-> item.query, positive_passages |-> item.positive_passages, retrieved_passages |-> Reorder(item.retrieved_passages, ReconciledIndices(response, Len(item.retrieved_passages)))]

----------------------------------------------------------------------------
(* receive_response: inputs *)

\* the characters responses are enumerated over
Alphabet == {"0", "1", "2", "3", " ", ",", "sup2"}

\* "1 2 ... n"
RECURSIVE IdentityResponse(_)
IdentityResponse(n) == IF n = 0 THEN <<>> ELSE IF n = 1 THEN <<"1">> ELSE IdentityResponse(n - 1) \o <<" ", CASE n = 2 -> "2" [] n = 3 -> "3" [] n = 4 -> "4" [] OTHER -> "5">>

NamedResponses == {<<"5", " ", "1", " ", "1", " ", "1", " ", "9", "9">>, <<"[", "2", "]", " ", ">", " ", "[", "1", "]">>, <<"3", ",", ",", "2", ">", "1">>, <<"1", " ", "sup2">>, <<"2", ">", "2", ">", "9", ">", "1">>} \cup {IdentityResponse(n) : n \in 0..MaxPassages}

Responses == SeqsUpTo(Alphabet, MaxLen) \cup NamedResponses

DocIds == {"a", "b"}

Items == [query : {"q1", "q2"}, positive_passages : {<<>>, <<"a">>}, retrieved_passages : SeqsUpTo(DocIds, MaxPassages)]

----------------------------------------------------------------------------
(* receive_response: the operation *)

\* the lists of two examples and two responses are drawn from these
PairedItems == {it \in Items : it.query = "q1" /\ it.positive_passages = <<>> /\ it.retrieved_passages \in {<<>>, <<"a", "b">>, <<"a", "b", "b">>}}

InputsReconcile == \/ rr \in [pc : {"call"}, data : {<<it>> : it \in Items}, responses : {<<r>> : r \in Responses}, new_data : {<<>>}]
                   \/ rr \in [pc : {"call"}, data : SeqsUpTo(PairedItems, 2), responses : SeqsUpTo(NamedResponses, 2), new_data : {<<>>}]

InitReconcile == InputsReconcile /\ gi = Idle /\ sd = Idle /\ gt = Idle /\ st = Idle /\ tr = Idle

\* zip(data, responses) stops at the end of the shorter list
ZipLen(data, responses) == Min(Len(data), Len(responses))

\* receive_response(data, responses): the list of reconciled examples, or the
\* ValueError that int() raises at line 85 for the first response it rejects
ReceiveResponse == /\ rr.pc = "call"
                   /\ rr' = IF \E k \in 1..ZipLen(rr.data, rr.responses) : ParseRaises(split(clean_response(rr.responses[k]))) THEN [rr EXCEPT !.pc = "ValueError"] ELSE [rr EXCEPT !.pc = "returned", !.new_data = [k \in 1..ZipLen(rr.data, rr.responses) |-> ReconcileItem(rr.data[k], rr.responses[k])]]
                   /\ UNCHANGED <<gi, sd, gt, st, tr>>

NextReconcile == ReceiveResponse

SpecReconcile == InitReconcile /\ [][NextReconcile]_vars

----------------------------------------------------------------------------
(* receive_response: properties *)

rr_in(k) == rr.data[k].retrieved_passages

rr_out(k) == rr.new_data[k].retrieved_passages

rr_indices(k) == ReconciledIndices(rr.responses[k], Len(rr_in(k)))

rr_parsed(k) == ParseIndices(split(clean_response(rr.responses[k])))

\* C1: receive_response is permutation-preserving: for every example the
\* reconciled list has the length of the original, holds every passage with
\* its original multiplicity, and every original position occurs exactly once
\* in the index sequence.
C1_PermutationPreserving == rr.pc = "returned" => /\ Len(rr.new_data) = ZipLen(rr.data, rr.responses)
                                                  /\ \A k \in 1..Len(rr.new_data) : /\ Len(rr_out(k)) = Len(rr_in(k))
                                                                                    /\ \A d \in DocIds : Count(rr_out(k), d) = Count(rr_in(k), d)
                                                                                    /\ Len(rr_indices(k)) = Len(rr_in(k))
                                                                                    /\ \A p \in 0..(Len(rr_in(k)) - 1) : Count(rr_indices(k), p) = 1

\* a response with a repeated and an out-of-range index that reorders three passages
C1_Witness == /\ rr.pc = "returned"
              /\ Len(rr.new_data) = 1
              /\ Len(rr_in(1)) = 3
              /\ rr_out(1) # rr_in(1)
              /\ Len(remove_duplicate(rr_parsed(1))) < Len(rr_parsed(1))
              /\ \E i \in 1..Len(rr_parsed(1)) : rr_parsed(1)[i] \notin 0..2

\* C2: malformed permutation text is never fatal: receive_response completes
\* without raising for every response string, and a response with no valid
\* index yields the original order.
C2_NeverFatal == /\ rr.pc # "ValueError"
                 /\ rr.pc = "returned" => \A k \in 1..Len(rr.new_data) : (\A i \in 1..Len(rr_parsed(k)) : rr_parsed(k)[i] \notin 0..(Len(rr_in(k)) - 1)) => rr_out(k) = rr_in(k)

\* the position of the first occurrence of x in s
C7_FirstPos(s, x) == CHOOSE i \in 1..Len(s) : s[i] = x /\ \A j \in 1..(i - 1) : s[j] # x

\* the indices of the response that are positions of the example
C7_Listed(k) == {rr_parsed(k)[i] : i \in 1..Len(rr_parsed(k))} \cap 0..(Len(rr_in(k)) - 1)

\* C7: the reconciled order is the in-range indices of the response (number
\* minus 1) in the order of their first occurrence, followed by the unlisted
\* positions in ascending order; query and positive_passages pass through;
\* "1 .. N" yields the original order and "5 1 1 1 99" on 3 passages yields
\* the index order [0, 1, 2].
C7_ReconciledOrder == rr.pc = "returned" => \A k \in 1..Len(rr.new_data) : LET n == Cardinality(C7_Listed(k)) idx == rr_indices(k) IN
                                               /\ Len(idx) = Len(rr_in(k))
                                               /\ {idx[i] : i \in 1..n} = C7_Listed(k)
                                               /\ \A i, j \in 1..n : i < j => C7_FirstPos(rr_parsed(k), idx[i]) < C7_FirstPos(rr_parsed(k), idx[j])
                                               /\ \A i, j \in (n + 1)..Len(idx) : i < j => idx[i] < idx[j]
                                               /\ rr_out(k) = [i \in 1..Len(idx) |-> rr_in(k)[idx[i] + 1]]
                                               /\ rr.new_data[k].query = rr.data[k].query
                                               /\ rr.new_data[k].positive_passages = rr.data[k].positive_passages
                                               /\ (rr.responses[k] = IdentityResponse(Len(rr_in(k))) => idx = RangeList(Len(rr_in(k))) /\ rr_out(k) = rr_in(k))
                                               /\ (rr.responses[k] = <<"5", " ", "1", " ", "1", " ", "1", " ", "9", "9">> /\ Len(rr_in(k)) = 3 => idx = <<0, 1, 2>>)
                                               /\ (rr.responses[k] = <<"3", ",", ",", "2", ">", "1">> /\ Len(rr_in(k)) = 3 => idx = <<2, 1, 0>>)

\* "3,,2>1" reverses three passages
C7_Witness == /\ rr.pc = "returned"
              /\ Len(rr.new_data) = 2
              /\ rr.responses[2] = <<"3", ",", ",", "2", ">", "1">>
              /\ rr_in(2) = <<"a", "b", "b">>
              /\ rr_out(2) = <<"b", "b", "a">>
              /\ rr.responses[1] = <<"5", " ", "1", " ", "1", " ", "1", " ", "9", "9">>
              /\ rr_out(1) = rr_in(1)

----------------------------------------------------------------------------
(* RerankData.__getitem__ *)

\* default max_len of RerankData.prompt
PromptMaxLen == 200

PaddingPassage == <<"<padding_passage>">>

\* RerankData.prompt: the text of a passage is its sequence of words
\* (psg.split()), of which the first max_len are kept
prompt(query, psg) == [query |-> query, passage |-> Slice(psg, 0, PromptMaxLen)]

\* item['positive_passages'][0] raises IndexError on an empty list (line 41)
GetItemRaises(item, label) == label /\ item.positive_passages = <<>>

\* lines 40-46: pos
Pos(item, label) == IF label THEN <<item.positive_passages[1].text>> ELSE <<>>

\* lines 42-46: neg
Neg(item, label, psg_num) == LET pos_id == [i \in 1..Len(item.positive_passages) |-> item.positive_passages[i].docid] NotPositive(psg) == ~In(psg.docid, pos_id) kept == IF label THEN SelectSeq(item.retrieved_passages, NotPositive) ELSE item.retrieved_passages IN Slice([i \in 1..Len(kept) |-> kept[i].text], 0, psg_num)

\* lines 48-50: passages
Passages(item, label, psg_num) == LET passages == Slice(Pos(item, label) \o Neg(item, label, psg_num), 0, psg_num) IN passages \o [i \in 1..(psg_num - Len(passages)) |-> PaddingPassage]

\* line 51: data
GetItem(item, label, psg_num) == LET passages == Passages(item, label, psg_num) IN [i \in 1..Len(passages) |-> prompt(item.query, passages[i])]

PassagePool == {[docid |-> "a", text |-> <<"alpha">>], [docid |-> "b", text |-> <<"beta", "two">>], [docid |-> "c", text |-> <<>>]}

SampleItems == [query : {"q1"}, positive_passages : SeqsUpTo({p \in PassagePool : p.docid # "c"}, MaxPositives), retrieved_passages : SeqsUpTo(PassagePool, MaxPassages)]

InputsSample == gi \in [pc : {"call"}, item : SampleItems, label : BOOLEAN, psg_num : 0..MaxPsgNum, data : {<<>>}]

InitSample == InputsSample /\ rr = Idle /\ sd = Idle /\ gt = Idle /\ st = Idle /\ tr = Idle

\* dataset[item]: the group of prompts, or the IndexError of line 41
GetItemCall == /\ gi.pc = "call"
               /\ gi' = IF GetItemRaises(gi.item, gi.label) THEN [gi EXCEPT !.pc = "IndexError"] ELSE [gi EXCEPT !.pc = "returned", !.data = GetItem(gi.item, gi.label, gi.psg_num)]
               /\ UNCHANGED <<rr, sd, gt, st, tr>>

NextSample == GetItemCall

SpecSample == InitSample /\ [][NextSample]_vars

\* the passages available to the group: the first positive and the negatives
\* with label, the retrieved passages without
C3_Pool == IF gi.label THEN Len(Pos(gi.item, TRUE)) + Len(Neg(gi.item, TRUE, Len(gi.item.retrieved_passages))) ELSE Len(gi.item.retrieved_passages)

\* C3: __getitem__ always returns exactly psg_num prompts, with and without
\* label, for every example (empty positive_passages and empty
\* retrieved_passages included); missing slots hold the padding passage, at
\* the end.
C3_AlwaysPsgNum == /\ gi.pc # "IndexError"
                   /\ gi.pc = "returned" => /\ Len(gi.data) = gi.psg_num
                                            /\ \A i \in 1..gi.psg_num : i > C3_Pool => gi.data[i] = prompt(gi.item.query, PaddingPassage)

----------------------------------------------------------------------------
(* split_data *)

\* split_data with the end of the slice computed from min(process_idx, remainder)
split_data_end_off(data, process_idx, num_processes, is_tensor) == IF is_tensor THEN LET sublist_length == Len(data) \div num_processes remainder == Len(data) % num_processes IN Slice(data, process_idx * sublist_length + Min(process_idx, remainder), (process_idx + 1) * sublist_length + Min(process_idx, remainder)) ELSE data

\* split_data(data, process_idx, num_processes); is_tensor is
\* isinstance(data, torch.Tensor), a tensor is the sequence of its rows
split_data(data, process_idx, num_processes, is_tensor) == IF is_tensor THEN LET sublist_length == Len(data) \div num_processes remainder == Len(data) % num_processes IN Slice(data, process_idx * sublist_length + Min(process_idx, remainder), (process_idx + 1) * sublist_length + Min(process_idx + 1, remainder)) ELSE data

InputsSplit == \E n \in 0..MaxRows, num_processes \in 1..MaxSplit, is_tensor \in BOOLEAN : sd = [pc |-> "split", data |-> [i \in 1..n |-> i], is_tensor |-> is_tensor, num_processes |-> num_processes, called |-> {}, shard |-> [idx \in 0..(num_processes - 1) |-> <<>>]]

InitSplit == InputsSplit /\ rr = Idle /\ gi = Idle /\ gt = Idle /\ st = Idle /\ tr = Idle

\* the worker with rank process_idx calls split_data
SplitData(process_idx) == /\ sd.pc = "split"
                          /\ process_idx \notin sd.called
                          /\ sd' = [sd EXCEPT !.called = @ \cup {process_idx}, !.shard[process_idx] = split_data(sd.data, process_idx, sd.num_processes, sd.is_tensor)]
                          /\ UNCHANGED <<rr, gi, gt, st, tr>>

NextSplit == \E process_idx \in 0..(sd.num_processes - 1) : SplitData(process_idx)

SpecSplit == InitSplit /\ [][NextSplit]_vars

C4_Base == Len(sd.data) \div sd.num_processes

C4_Size(idx) == IF idx < Len(sd.data) % sd.num_processes THEN C4_Base + 1 ELSE C4_Base

RECURSIVE C4_Offset(_)
C4_Offset(idx) == IF idx = 0 THEN 0 ELSE C4_Offset(idx - 1) + C4_Size(idx - 1)

RECURSIVE C4_Concat(_)
C4_Concat(n) == IF n = 0 THEN <<>> ELSE C4_Concat(n - 1) \o sd.shard[n - 1]

C4_AllCalled == sd.called = 0..(sd.num_processes - 1)

\* C4: split_data partitions the leading dimension exactly: the shard of rank
\* idx is the contiguous run of rows that follows the shards of the lower
\* ranks, its size is base + 1 for the first (N mod num_processes) ranks and
\* base = N div num_processes for the rest, and the shards concatenated in
\* rank order are the original sequence.
C4_ExactPartition == sd.is_tensor => /\ \A idx \in sd.called : /\ Len(sd.shard[idx]) = C4_Size(idx)
                                                             /\ sd.shard[idx] = [k \in 1..C4_Size(idx) |-> sd.data[C4_Offset(idx) + k]]
                                     /\ \A i, j \in sd.called : /\ Len(sd.shard[i]) - Len(sd.shard[j]) \in {-1, 0, 1}
                                                              /\ i # j => Range(sd.shard[i]) \cap Range(sd.shard[j]) = {}
                                     /\ C4_AllCalled => C4_Concat(sd.num_processes) = sd.data

\* five rows shared among three workers: sizes 2, 2, 1
C4_Witness == /\ sd.is_tensor
              /\ Len(sd.data) = 5
              /\ sd.num_processes = 3
              /\ C4_AllCalled
              /\ Len(sd.shard[0]) = 2 /\ Len(sd.shard[1]) = 2 /\ Len(sd.shard[2]) = 1

----------------------------------------------------------------------------
(* gather_tensors                                                          *)
(*                                                                         *)
(* A tensor is [dtype, rows].  A number v stands for a float64 value; the  *)
(* values float32 represents are the even ones, so that the conversion of  *)
(* a float64 tensor to float32 rounds (to nearest, ties to even) as the   *)
(* narrower mantissa does.                                                 *)

ToFloat32(v) == IF v % 2 = 0 THEN v ELSE IF (v \div 2) % 2 = 0 THEN 2 * (v \div 2) ELSE 2 * ((v \div 2) + 1)

MaxOf(S) == CHOOSE m \in S : \A x \in S : x <= m

RECURSIVE ConcatRows(_)
ConcatRows(tensors) == IF tensors = <<>> THEN <<>> ELSE ConcatRows(SubSeq(tensors, 1, Len(tensors) - 1)) \o tensors[Len(tensors)].rows

\* torch.cat(tensors, dim=0): the rows in order, in the promoted dtype
Cat(tensors) == [dtype |-> IF \E i \in 1..Len(tensors) : tensors[i].dtype = "float64" THEN "float64" ELSE IF \E i \in 1..Len(tensors) : tensors[i].dtype = "float32" THEN "float32" ELSE tensors[1].dtype, rows |-> ConcatRows(tensors)]

\* lines 118-119: torch.zeros(max_size, ...) has the default dtype, float32,
\* and the assignment of local_tensor into it converts the values
PaddedTensor(local_tensor, max_size) == [dtype |-> "float32", rows |-> [k \in 1..max_size |-> IF k <= Len(local_tensor.rows) THEN ToFloat32(local_tensor.rows[k]) ELSE 0]]

\* lines 124-128: gathered_tensor[arange(max_size) < size]: the rows at the
\* positions where the mask is true, in order
Masked(gathered_tensor, size) == LET mask == [k \in 1..Len(gathered_tensor.rows) |-> k - 1 < size] kept == {k \in 1..Len(gathered_tensor.rows) : mask[k]} IN [gathered_tensor EXCEPT !.rows = [i \in 1..Cardinality(kept) |-> gathered_tensor.rows[CHOOSE k \in kept : Cardinality({j \in kept : j <= k}) = i]]]

\* what dist.all_gather does with the workers' tensors: the list each worker
\* receives when all tensors have one size.  With different sizes the call
\* breaks all_gather's contract and its behaviour is the transport's: an
\* error, a stall, or a return with receive buffers of unspecified content.
AllGatherOutcomes(sizes) == IF \A i, j \in DOMAIN sizes : sizes[i] = sizes[j] THEN {"ok"} ELSE {"error", "hang", "garbage"}

Unspecified == "unspecified"

\* lines 111-128, 134-136: gather_tensors(local_tensor, pad=True) on the
\* worker with this rank; locals[r + 1] is the local_tensor of rank r
GatherPadded(locals, rank) == LET sizes == [r \in 1..Len(locals) |-> Len(locals[r].rows)] max_size == MaxOf(Range(sizes)) gathered == [r \in 1..Len(locals) |-> Masked(PaddedTensor(locals[r], max_size), sizes[r])] IN Cat([gathered EXCEPT ![rank + 1] = locals[rank + 1]])

\* gather_tensors(pad=False) with the local shard put into slot 0 instead of
\* slot dist.get_rank()
GatherUnpadded_slot0(locals, rank, outcome) == LET received == [r \in 1..Len(locals) |-> IF outcome = "ok" THEN locals[r] ELSE [locals[rank + 1] EXCEPT !.rows = [k \in 1..Len(locals[rank + 1].rows) |-> Unspecified]]] IN Cat([received EXCEPT ![1] = locals[rank + 1]])

\* lines 130-136: gather_tensors(local_tensor, pad=False) on the worker with
\* this rank; the receive buffers are zeros_like(local_tensor)
GatherUnpadded(locals, rank, outcome) == LET received == [r \in 1..Len(locals) |-> IF outcome = "ok" THEN locals[r] ELSE [locals[rank + 1] EXCEPT !.rows = [k \in 1..Len(locals[rank + 1].rows) |-> Unspecified]]] IN Cat([received EXCEPT ![rank + 1] = locals[rank + 1]])

\* gather_tensors(local_tensor, pad) on the worker with this rank
gather_tensors(locals, rank, pad, initialized, outcome) == IF ~initialized THEN locals[rank + 1] ELSE IF pad THEN GatherPadded(locals, rank) ELSE GatherUnpadded(locals, rank, outcome)

Values64 == {0, 2, 3}

Values32 == {0, 2}

Tensors(dtype, n) == [dtype : {dtype}, rows : SeqsUpTo(IF dtype = "float64" THEN Values64 ELSE Values32, n)]

InputsGather == \E world \in 1..MaxWorld, dtype \in {"float32", "float64"}, pad \in BOOLEAN, initialized \in BOOLEAN : /\ world > 1 => initialized
                                                                                                                       /\ \E locals \in [1..world -> Tensors(dtype, MaxShard)] : gt = [pc |-> "call", locals |-> locals, pad |-> pad, initialized |-> initialized, result |-> <<>>]

InitGather == InputsGather /\ rr = Idle /\ gi = Idle /\ sd = Idle /\ st = Idle /\ tr = Idle

\* every worker calls gather_tensors(local_tensor, pad)
GatherTensors == /\ gt.pc = "call"
                 /\ \E outcome \in (IF gt.pad \/ ~gt.initialized THEN {"ok"} ELSE AllGatherOutcomes([r \in 1..Len(gt.locals) |-> Len(gt.locals[r].rows)])) : gt' = IF outcome \in {"error", "hang"} THEN [gt EXCEPT !.pc = outcome] ELSE [gt EXCEPT !.pc = IF outcome = "ok" THEN "returned" ELSE "returned garbage", !.result = [r \in 1..Len(gt.locals) |-> gather_tensors(gt.locals, r - 1, gt.pad, gt.initialized, outcome)]]
                 /\ UNCHANGED <<rr, gi, sd, st, tr>>

NextGather == GatherTensors

SpecGather == InitGather /\ [][NextGather]_vars

\* C5: padded gather round-trip: with pad=True every worker obtains the same
\* result, the concatenation in rank order of each worker's exact original
\* shard (padding rows removed, no original row lost), its own shard verbatim
\* at its rank position.
C5_PaddedRoundTrip == (gt.pc = "returned" /\ gt.pad /\ gt.initialized) => /\ \A r \in 1..Len(gt.locals) : gt.result[r].rows = ConcatRows(gt.locals)
                                                                          /\ \A r1, r2 \in 1..Len(gt.locals) : gt.result[r1] = gt.result[r2]

----------------------------------------------------------------------------
(* One training step: collate_fn, split_data, forward, gather_tensors,     *)
(* view, loss and update (train, lines 187-207), for all workers           *)

\* train, line 148
psg_num == 8

\* train, line 147
batch_size == 16

\* sum(data, [])
RECURSIVE Flatten(_)
Flatten(data) == IF data = <<>> THEN <<>> ELSE Flatten(SubSeq(data, 1, Len(data) - 1)) \o data[Len(data)]

\* collate_fn: one row of features per prompt, in the order of the flattened
\* groups, and a (batch_size, 1) tensor of zeros
collate_fn(data) == [input_ids |-> Flatten(data), decoder_input_ids |-> [k \in 1..Len(Flatten(data)) |-> 0]]

\* the group dataset[i] of a batch: the prompt of slot j of example i is <<i, j>>
Group(i) == [j \in 1..psg_num |-> <<i - 1, j - 1>>]

\* lines 190-191: {k: split_data(v, process_index, num_processes)}
SplitBatch(batch, process_index, num_processes) == [k \in DOMAIN batch |-> split_data(batch[k], process_index, num_processes, TRUE)]

\* lines 194-195: out.logits[:, -1, token_yes]: one logit per row, that of the
\* prompt of the row
Forward(batch) == [dtype |-> "bfloat16", rows |-> batch.input_ids]

\* logits.view(-1, psg_num) is an error when the number of elements is 0 or
\* no multiple of psg_num
ViewRaises(logits) == Len(logits.rows) = 0 \/ Len(logits.rows) % psg_num # 0

\* logits.view(-1, psg_num)
View(logits) == [i \in 1..(Len(logits.rows) \div psg_num) |-> [j \in 1..psg_num |-> logits.rows[(i - 1) * psg_num + j]]]

InputsStep == \E num_processes \in 1..MaxProcesses, examples \in 1..MaxExamples : /\ examples <= batch_size
                                                                                  /\ st = [pc |-> "split", num_processes |-> num_processes, batch |-> collate_fn([i \in 1..examples |-> Group(i)]), local |-> <<>>, logits |-> <<>>, status |-> [w \in 1..num_processes |-> "running"], grouped |-> <<>>]

InitStep == InputsStep /\ rr = Idle /\ gi = Idle /\ sd = Idle /\ gt = Idle /\ tr = Idle

\* lines 190-195: every worker splits the batch and runs the forward pass
StepForward == /\ st.pc = "split"
               /\ st' = [st EXCEPT !.pc = "gather", !.local = [w \in 1..st.num_processes |-> Forward(SplitBatch(st.batch, w - 1, st.num_processes))]]
               /\ UNCHANGED <<rr, gi, sd, gt, tr>>

\* line 195: the workers meet in gather_tensors(logits); torch.distributed is
\* initialized when there is more than one worker
StepGather == /\ st.pc = "gather"
              /\ \E outcome \in (IF st.num_processes = 1 THEN {"ok"} ELSE AllGatherOutcomes([w \in 1..st.num_processes |-> Len(st.local[w].rows)])) : st' = IF outcome \in {"error", "hang"} THEN [st EXCEPT !.pc = outcome, !.status = [w \in 1..st.num_processes |-> outcome]] ELSE [st EXCEPT !.pc = "view", !.logits = [w \in 1..st.num_processes |-> gather_tensors(st.local, w - 1, FALSE, st.num_processes > 1, outcome)]]
              /\ UNCHANGED <<rr, gi, sd, gt, tr>>

\* line 196: every worker reshapes what it gathered
StepView == /\ st.pc = "view"
            /\ st' = [st EXCEPT !.pc = "update", !.status = [w \in 1..st.num_processes |-> IF ViewRaises(st.logits[w]) THEN "RuntimeError" ELSE "reshaped"], !.grouped = [w \in 1..st.num_processes |-> IF ViewRaises(st.logits[w]) THEN <<>> ELSE View(st.logits[w])]]
            /\ UNCHANGED <<rr, gi, sd, gt, tr>>

\* lines 198-205: a worker that has its grouped logits computes the loss,
\* runs the backward pass and calls the optimizer
StepUpdate == /\ st.pc = "update"
              /\ st' = [st EXCEPT !.pc = "done", !.status = [w \in 1..st.num_processes |-> IF st.status[w] = "reshaped" THEN "stepped" ELSE st.status[w]]]
              /\ UNCHANGED <<rr, gi, sd, gt, tr>>

NextStep == StepForward \/ StepGather \/ StepView \/ StepUpdate

SpecStep == InitStep /\ [][NextStep]_vars

st_examples == Len(st.batch.input_ids) \div psg_num

\* the shards that reach the un-padded gather do not all have one size
st_mismatch == Len(st.batch.input_ids) % st.num_processes # 0

\* C6: a collective shape mismatch is fatal: when the shards reaching the
\* un-padded gather differ in size, the step ends in a fatal error and no
\* worker goes on to reshape the gathered logits, compute a loss or take an
\* optimizer step.
C6_MismatchFatal == (st.pc \notin {"idle", "split", "gather"} /\ st_mismatch) => /\ st.pc = "error"
                                                                                 /\ \A w \in 1..st.num_processes : st.status[w] \notin {"reshaped", "stepped"}

\* C8: group structure survives the split/gather round trip: when all shards
\* have one size, every worker reshapes without error and entry (i, j) of its
\* result is the logit of the prompt of example i, slot j of the batch.
C8_GroupStructure == (st.pc \in {"update", "done"} /\ ~st_mismatch) => \A w \in 1..st.num_processes : /\ st.status[w] \in {"reshaped", "stepped"}
                                                                                                      /\ Len(st.grouped[w]) = st_examples
                                                                                                      /\ \A i \in 1..st_examples : /\ Len(st.grouped[w][i]) = psg_num
                                                                                                                                   /\ \A j \in 1..psg_num : st.grouped[w][i][j] = <<i - 1, j - 1>>

\* three examples on two workers: the shards of 12 rows cut the group of the
\* second example in two
C8_Witness == /\ st.pc = "done"
              /\ st.num_processes = 2
              /\ st_examples = 3
              /\ Len(st.local[1].rows) = 12
              /\ st.local[2].rows[1] = <<1, 4>>
              /\ \A w \in 1..2 : st.status[w] = "stepped" /\ st.grouped[w][2][5] = <<1, 4>>

----------------------------------------------------------------------------
(* The training loop (train, lines 181-214), one process per worker        *)

\* Accelerator(gradient_accumulation_steps=2), line 146
gradient_accumulation_steps == 2

\* accumulate() without the count of micro-steps: every step synchronizes
SyncGradients_always(step) == TRUE

\* accelerator.accumulate(model), entered at line 188, counts the micro-step
\* and sets sync_gradients; the data loader that signals the end of an epoch
\* to the accelerator is the one accelerator.prepare returns, which line 177
\* discards, so the count runs on across epochs
SyncGradients(step) == step % gradient_accumulation_steps = 0

\* len(data_loader): DistributedSampler(num_replicas=1, rank=0) gives every
\* worker the whole dataset, in batches of batch_size, the last one shorter
NumBatches(n) == (n + batch_size - 1) \div batch_size

\* the number of examples of batch b (from 0) of a dataset of n examples
BatchExamples(n, b) == Min(batch_size, n - b * batch_size)

\* the rows of the shard split_data gives the worker with this rank
ShardRows(rows, rank, num_processes) == Len(split_data([k \in 1..rows |-> k], rank, num_processes, TRUE))

\* the rows of what gather_tensors(logits) returns on the worker with this rank
GatheredRows(rows, rank, num_processes, outcome) == IF num_processes = 1 \/ outcome = "ok" THEN rows ELSE num_processes * ShardRows(rows, rank, num_processes)

InputsTrain == \E num_processes \in 1..MaxWorkers, n \in 0..MaxData, epochs \in 0..MaxEpochs : tr = [num_processes |-> num_processes, n |-> n, epochs |-> epochs, pc |-> [w \in 1..num_processes |-> "epoch"], epoch |-> [w \in 1..num_processes |-> 0], batch |-> [w \in 1..num_processes |-> 0], calls |-> [w \in 1..num_processes |-> <<>>], step |-> [w \in 1..num_processes |-> 0], gathered |-> [w \in 1..num_processes |-> 0], log |-> [w \in 1..num_processes |-> <<>>], last_window |-> [w \in 1..num_processes |-> <<>>], updates |-> [w \in 1..num_processes |-> 0], saved |-> [w \in 1..num_processes |-> <<>>]]

InitTrain == InputsTrain /\ rr = Idle /\ gi = Idle /\ sd = Idle /\ gt = Idle /\ st = Idle

Workers == 1..tr.num_processes

AllAt(pc) == \A w \in Workers : tr.pc[w] = pc

\* lines 181-183: the head of the epoch loop, up to wait_for_everyone()
TrainEpoch(w) == /\ tr.pc[w] = "epoch"
                 /\ tr' = IF tr.epoch[w] < tr.epochs THEN [tr EXCEPT !.pc[w] = "wait_start", !.calls[w] = Append(@, "barrier")] ELSE [tr EXCEPT !.pc[w] = "returned"]
                 /\ UNCHANGED <<rr, gi, sd, gt, st>>

\* line 183: wait_for_everyone() returns when every worker has called it
StartBarrier == /\ AllAt("wait_start")
                /\ tr' = [tr EXCEPT !.pc = [w \in Workers |-> "batch"], !.batch = [w \in Workers |-> 0]]
                /\ UNCHANGED <<rr, gi, sd, gt, st>>

\* lines 187-195: the next batch, accumulate(), split_data and the forward
\* pass, up to the all_gather of gather_tensors; after the last batch, line 210
TrainBatch(w) == /\ tr.pc[w] = "batch"
                 /\ tr' = IF tr.batch[w] < NumBatches(tr.n) THEN [tr EXCEPT !.pc[w] = "wait_logits", !.step[w] = @ + 1, !.calls[w] = Append(@, "all_gather")] ELSE [tr EXCEPT !.pc[w] = "wait_end", !.calls[w] = Append(@, "barrier")]
                 /\ UNCHANGED <<rr, gi, sd, gt, st>>

\* line 195: the all_gather of gather_tensors(logits) among the workers
LogitsGather == /\ AllAt("wait_logits")
                /\ \E outcome \in (IF tr.num_processes = 1 THEN {"ok"} ELSE AllGatherOutcomes([w \in Workers |-> ShardRows(psg_num * BatchExamples(tr.n, tr.batch[w]), w - 1, tr.num_processes)])) : tr' = IF outcome \in {"error", "hang"} THEN [tr EXCEPT !.pc = [w \in Workers |-> outcome]] ELSE [tr EXCEPT !.pc = [w \in Workers |-> "backward"], !.gathered = [w \in Workers |-> GatheredRows(psg_num * BatchExamples(tr.n, tr.batch[w]), w - 1, tr.num_processes, outcome)]]
                /\ UNCHANGED <<rr, gi, sd, gt, st>>

\* lines 196-202: view, the loss and accelerator.backward(loss)
Backward(w) == /\ tr.pc[w] = "backward"
               /\ tr' = IF tr.gathered[w] = 0 \/ tr.gathered[w] % psg_num # 0 THEN [tr EXCEPT !.pc[w] = "error"] ELSE [tr EXCEPT !.pc[w] = "clip", !.log[w] = Append(@, "backward")]
               /\ UNCHANGED <<rr, gi, sd, gt, st>>

\* line 203: accelerator.clip_grad_norm_
ClipGradNorm(w) == /\ tr.pc[w] = "clip"
                   /\ tr' = [tr EXCEPT !.pc[w] = "step", !.log[w] = Append(@, "clip")]
                   /\ UNCHANGED <<rr, gi, sd, gt, st>>

\* line 204: optimizer.step() of the prepared optimizer updates the
\* parameters when sync_gradients is set and does nothing otherwise
OptimizerStep(w) == /\ tr.pc[w] = "step"
                    /\ tr' = IF SyncGradients(tr.step[w]) THEN [tr EXCEPT !.pc[w] = "zero_grad", !.log[w] = Append(@, "step"), !.updates[w] = @ + 1] ELSE [tr EXCEPT !.pc[w] = "zero_grad"]
                    /\ UNCHANGED <<rr, gi, sd, gt, st>>

\* lines 205-207: optimizer.zero_grad() of the prepared optimizer zeroes the
\* gradients when sync_gradients is set; then accelerator.gather(loss)
ZeroGrad(w) == /\ tr.pc[w] = "zero_grad"
               /\ tr' = IF SyncGradients(tr.step[w]) THEN [tr EXCEPT !.pc[w] = "wait_loss", !.last_window[w] = tr.log[w], !.log[w] = <<>>, !.calls[w] = Append(@, "gather")] ELSE [tr EXCEPT !.pc[w] = "wait_loss", !.calls[w] = Append(@, "gather")]
               /\ UNCHANGED <<rr, gi, sd, gt, st>>

\* line 207: accelerator.gather(loss) among the workers; line 208; next batch
LossGather == /\ AllAt("wait_loss")
              /\ tr' = [tr EXCEPT !.pc = [w \in Workers |-> "batch"], !.batch = [w \in Workers |-> tr.batch[w] + 1]]
              /\ UNCHANGED <<rr, gi, sd, gt, st>>

\* line 210: wait_for_everyone() at the end of the epoch
EndBarrier == /\ AllAt("wait_end")
              /\ tr' = [tr EXCEPT !.pc = [w \in Workers |-> "save"]]
              /\ UNCHANGED <<rr, gi, sd, gt, st>>

\* lines 211-213: the model and the tokenizer are saved to save_path/epoch
Save(w) == /\ tr.pc[w] = "save"
           /\ tr' = [tr EXCEPT !.pc[w] = "epoch", !.saved[w] = Append(@, tr.epoch[w]), !.epoch[w] = @ + 1]
           /\ UNCHANGED <<rr, gi, sd, gt, st>>

NextTrain == \/ StartBarrier
             \/ LogitsGather
             \/ LossGather
             \/ EndBarrier
             \/ \E w \in Workers : TrainEpoch(w)
             \/ \E w \in Workers : TrainBatch(w)
             \/ \E w \in Workers : Backward(w)
             \/ \E w \in Workers : ClipGradNorm(w)
             \/ \E w \in Workers : OptimizerStep(w)
             \/ \E w \in Workers : ZeroGrad(w)
             \/ \E w \in Workers : Save(w)

SpecTrain == InitTrain /\ [][NextTrain]_vars

IsPrefix(s, t) == Len(s) <= Len(t) /\ s = SubSeq(t, 1, Len(s))

\* the collective calls of one epoch of a run with b batches
RECURSIVE C9_BatchCalls(_)
C9_BatchCalls(b) == IF b = 0 THEN <<>> ELSE <<"all_gather", "gather">> \o C9_BatchCalls(b - 1)

RECURSIVE C9_RunCalls(_, _)
C9_RunCalls(epochs, b) == IF epochs = 0 THEN <<>> ELSE <<"barrier">> \o C9_BatchCalls(b) \o <<"barrier">> \o C9_RunCalls(epochs - 1, b)

\* C9: collective discipline: every worker performs the same sequence of
\* collective calls (per epoch the start barrier, per batch the logits
\* all-gather and the loss gather, the end barrier, the save), no worker
\* blocks at a collective another never reaches, and every worker reaches the
\* end of the last epoch.
C9_CollectiveDiscipline == \A w \in Workers : /\ IsPrefix(tr.calls[w], C9_RunCalls(tr.epochs, NumBatches(tr.n)))
                                              /\ tr.pc[w] \notin {"error", "hang"}
                                              /\ tr.pc[w] = "returned" => /\ tr.calls[w] = C9_RunCalls(tr.epochs, NumBatches(tr.n))
                                                                          /\ tr.saved[w] = RangeList(tr.epochs)

C10_Window == <<"backward", "clip", "backward", "clip", "step">>

\* C10: gradient accumulation ordering: each optimizer step follows exactly 2
\* backward passes; between the micro-steps of a window the gradients are not
\* zeroed and the parameters not updated; the gradients are clipped before
\* the optimizer step and zeroed only after it; over all batches and epochs.
C10_AccumulationOrder == \A w \in Workers : /\ IsPrefix(tr.log[w], C10_Window)
                                            /\ tr.last_window[w] \in {<<>>, C10_Window}
                                            /\ tr.updates[w] = tr.step[w] \div 2 - (IF tr.step[w] % 2 = 0 /\ tr.pc[w] \in {"wait_logits", "backward", "clip", "step", "error", "hang"} THEN 1 ELSE 0)
                                            /\ (tr.pc[w] \in {"batch", "wait_end", "save", "epoch", "returned", "wait_start"}) => Len(tr.log[w]) = 2 * (tr.step[w] % 2)

\* an epoch of three batches: the second window of a worker is made of the
\* last batch of epoch 0 and the first batch of epoch 1
C10_Witness == \E w \in Workers : /\ NumBatches(tr.n) = 3
                                  /\ tr.epoch[w] = 1
                                  /\ tr.batch[w] = 0
                                  /\ tr.pc[w] = "wait_loss"
                                  /\ tr.updates[w] = 2
                                  /\ tr.last_window[w] = C10_Window
                                  /\ tr.saved[w] = <<0>>

=============================================================================
